---- MODULE Spec2Model ----
(***************************************************************************)
(* Publishing / rollback subsystem of the survey pipeline template:        *)
(* survey_pipeline/publishing.py (PublishingEngine) and the directory      *)
(* primitives of survey_pipeline/utils.py, as a state machine over the     *)
(* project's directory tree.                                               *)
(*                                                                         *)
(* A directory is a record [exists, files, recs]: files are the dataset    *)
(* files below it (sub = the path of sub-directories leading to the file), *)
(* recs are the _publication_metadata_<ts>.json files directly in it.      *)
(* A sub-directory exists exactly when a file lies below it.               *)
(***************************************************************************)
EXTENDS Integers, Sequences, FiniteSets, TLC

VARIABLES
    now,              \* the wall clock read by create_run_timestamp / datetime.now
    backup_previous,  \* PublishingEngine.backup_previous (publish.backup_previous)
    cleaned,          \* <root>/staging/cleaned
    consolidated,     \* <root>/staging/cleaned_consolidated
    archive,          \* <root>/staging/published_archive/<ts>
    stable,           \* <root>/cleaned_stable
    siblings,         \* the other directories directly under <root>, by name
    pc,               \* per invocation: the statement it is at
    loc,              \* per invocation: its local variables
    result,           \* per invocation: what its last call gave its caller
    pre,              \* per invocation: the directory tree when its call started
    hist,             \* what has happened so far (calls, faults, publications)
    gen,              \* number of staging generations written so far
    tree,             \* the work directories the stages ask ensure_directory for
    run               \* the pipeline run in progress: its steps and their results

fsVars == <<cleaned, consolidated, archive, stable, siblings>>
vars == <<now, backup_previous, cleaned, consolidated, archive, stable, siblings,
          pc, loc, result, pre, hist, gen, tree, run>>

-----------------------------------------------------------------------------
(* Bounds *)

MaxTime == 2
MaxOps == 3
MaxGen == 2
MaxFaults == 1

Timestamps == 1..MaxTime
Procs == {1}

-----------------------------------------------------------------------------
(* Directories *)

NoDir == [exists |-> FALSE, files |-> {}, recs |-> {}]
EmptyDir == [exists |-> TRUE, files |-> {}, recs |-> {}]

\* any(path.iterdir()) is false
IsEmpty(d) == d.files = {} /\ d.recs = {}

IsPrefix(s, t) == Len(s) <= Len(t) /\ SubSeq(t, 1, Len(s)) = s

\* os.path.isdir(d / p[1] / ... / p[n])
HasSub(d, p) == \E f \in d.files : IsPrefix(p, f.sub)

\* the names of the sub-directories directly in d
TopSubdirs(d) == {f.sub[1] : f \in {g \in d.files : Len(g.sub) > 0}}

\* the content of d placed below the path p of another directory
Below(p, fs) == {[f EXCEPT !.sub = p \o f.sub] : f \in fs}

\* names of the directories that publish, rollback and swap create beside stable
SiblingKinds == {"stable_backup", "stable_backup_pre_rollback",
                 "cleaned_stable_backup", "cleaned_stable_temp"}
Names == [kind : SiblingKinds, ts : Timestamps]
None == [kind |-> "none", ts |-> 0]
CleanedRef == [kind |-> "cleaned", ts |-> 0]
ConsolidatedRef == [kind |-> "cleaned_consolidated", ts |-> 0]

\* the directory a path refers to
DirAt(ref) ==
    IF ref = CleanedRef THEN cleaned
    ELSE IF ref = ConsolidatedRef THEN consolidated
    ELSE IF ref \in Names THEN siblings[ref]
    ELSE NoDir

FS == [cleaned |-> cleaned, consolidated |-> consolidated, archive |-> archive,
       stable |-> stable, siblings |-> siblings]

RECURSIVE SumRows(_)
SumRows(fs) ==
    IF fs = {} THEN 0
    ELSE LET f == CHOOSE g \in fs : TRUE IN f.rows + SumRows(fs \ {f})

-----------------------------------------------------------------------------
(* utils.py *)

create_run_timestamp == now

-----------------------------------------------------------------------------
(* PublishingEngine.validate_staging_data *)

DirectCsv(c) == {f \in c.files : f.sub = <<>>}
SubdirCsv(c) == {f \in c.files : Len(f.sub) = 1}

\* csv_files: direct files, and the sub-directories' files only if there is none
csv_files(c) == IF DirectCsv(c) # {} THEN DirectCsv(c) ELSE SubdirCsv(c)

dataset_info(f) ==
    [file |-> f.name, path |-> f.sub, records |-> f.rows,
     last_modified |-> [type |-> "datetime", v |-> f.gen]]

Issue(m, n) == [msg |-> m, file |-> n]

\* total_records counting the datasets instead of their rows
validate_staging_data_CountsFiles(c) ==
    IF ~c.exists
    THEN [valid |-> FALSE,
          issues |-> {Issue("No staging/cleaned directory found", "")},
          datasets_found |-> {}, total_records |-> 0]
    ELSE IF csv_files(c) = {}
    THEN [valid |-> FALSE,
          issues |-> {Issue("No CSV files found", "")},
          datasets_found |-> {}, total_records |-> 0]
    ELSE LET read == {f \in csv_files(c) : f.ok}
             failed == csv_files(c) \ read
             total == Cardinality(read)
         IN [valid |-> failed = {} /\ total # 0,
             issues |-> {Issue("is empty", f.name) : f \in {g \in read : g.rows = 0}}
                        \cup {Issue("Error reading", f.name) : f \in failed}
                        \cup (IF total = 0
                              THEN {Issue("No data records found", "")} ELSE {}),
             datasets_found |-> {dataset_info(f) : f \in read},
             total_records |-> total]

\* an empty dataset invalidating the whole result
validate_staging_data_EmptyInvalid(c) ==
    IF ~c.exists
    THEN [valid |-> FALSE,
          issues |-> {Issue("No staging/cleaned directory found", "")},
          datasets_found |-> {}, total_records |-> 0]
    ELSE IF csv_files(c) = {}
    THEN [valid |-> FALSE,
          issues |-> {Issue("No CSV files found", "")},
          datasets_found |-> {}, total_records |-> 0]
    ELSE LET read == {f \in csv_files(c) : f.ok}
             failed == csv_files(c) \ read
             total == SumRows(read)
         IN [valid |-> failed = {} /\ total # 0 /\ \A f \in read : f.rows # 0,
             issues |-> {Issue("is empty", f.name) : f \in {g \in read : g.rows = 0}}
                        \cup {Issue("Error reading", f.name) : f \in failed}
                        \cup (IF total = 0
                              THEN {Issue("No data records found", "")} ELSE {}),
             datasets_found |-> {dataset_info(f) : f \in read},
             total_records |-> total]

\* lines 42-106
validate_staging_data(c) ==
    IF ~c.exists
    THEN [valid |-> FALSE,
          issues |-> {Issue("No staging/cleaned directory found", "")},
          datasets_found |-> {}, total_records |-> 0]
    ELSE IF csv_files(c) = {}
    THEN [valid |-> FALSE,
          issues |-> {Issue("No CSV files found", "")},
          datasets_found |-> {}, total_records |-> 0]
    ELSE LET read == {f \in csv_files(c) : f.ok}
             failed == csv_files(c) \ read
             total == SumRows(read)
         IN [valid |-> failed = {} /\ total # 0,
             issues |-> {Issue("is empty", f.name) : f \in {g \in read : g.rows = 0}}
                        \cup {Issue("Error reading", f.name) : f \in failed}
                        \cup (IF total = 0
                              THEN {Issue("No data records found", "")} ELSE {}),
             datasets_found |-> {dataset_info(f) : f \in read},
             total_records |-> total]

ForcedValidation == [datasets_found |-> {}, total_records |-> 0]

-----------------------------------------------------------------------------
(* PublishingEngine.create_publication_metadata and its JSON file *)

NoMeta == [publication_timestamp |-> 0, publication_date |-> 0,
           datasets_published |-> {}, total_records_published |-> 0,
           backup_created |-> FALSE]

create_publication_metadata(run_timestamp, vr) ==
    [publication_timestamp |-> run_timestamp,
     publication_date |-> now,
     datasets_published |-> vr.datasets_found,
     total_records_published |-> vr.total_records,
     backup_created |-> backup_previous]

\* json.dump(metadata, f, default=str): what JSON cannot hold is written as str(x)
json_default(x) == IF x.type = "datetime" THEN [type |-> "str", v |-> x.v] ELSE x

json_dump(m) ==
    [m EXCEPT !.datasets_published =
        {[d EXCEPT !.last_modified = json_default(@)] : d \in @}]

\* json.load: the values the file holds
json_load(j) == j

-----------------------------------------------------------------------------
(* Staging producers (the cleaning stage) write whole staging generations *)

File(sub, name, rows) == [sub |-> sub, name |-> name, rows |-> rows, ok |-> TRUE, gen |-> 0]
Unreadable(sub, name) == [sub |-> sub, name |-> name, rows |-> 0, ok |-> FALSE, gen |-> 0]

Layouts ==
    { {},
      {File(<<>>, "households.csv", 2), File(<<>>, "members.csv", 1)},
      {File(<<"run1">>, "households.csv", 1), File(<<"run2">>, "households.csv", 2)},
      {File(<<>>, "households.csv", 1), File(<<"run1">>, "members.csv", 1)} }

Stamp(layout, g) == {[f EXCEPT !.gen = g] : f \in layout}

-----------------------------------------------------------------------------
(* Invocations *)

LocInit ==
    [op |-> "", ts |-> 0, force |-> FALSE, tag |-> None,
     vr |-> ForcedValidation, backup_path |-> None, metadata |-> NoMeta,
     source |-> None, backup |-> FALSE, temp |-> None,
     bdName |-> None, bdResult |-> None, bdRet |-> "", swapRet |-> "",
     inTry |-> FALSE, current_timestamp |-> 0, current_backup |-> None]

\* lines 399-407, before anything is looked up
NoStatus ==
    [taken |-> FALSE, stable_directory_exists |-> FALSE, staging_ready |-> FALSE,
     last_publication |-> None, current_datasets |-> {}, total_records |-> 0]

NoResult ==
    [kind |-> "none", op |-> "", success |-> FALSE, error |-> "", issues |-> {},
     run_timestamp |-> 0, force |-> FALSE, metadata |-> NoMeta, backup_path |-> None,
     datasets_published |-> 0, total_records |-> 0,
     restored_from |-> None, current_backup |-> None, rollback_timestamp |-> 0,
     publications |-> <<>>, status |-> NoStatus]

NoSnap == [valid |-> FALSE, dir |-> NoDir]

HistInit ==
    [ops |-> 0, faults |-> 0, pubs |-> {}, npubs |-> 0, rollbacks |-> 0,
     snap |-> [t \in Timestamps |-> NoSnap], archived |-> FALSE]

\* no work directory asked for yet
NoTree == [nodes |-> <<>>, path |-> <<>>, calls |-> 0, err |-> "", once |-> <<>>,
           before |-> <<>>]

\* no pipeline run started yet
NoRun ==
    [mode |-> "none", pos |-> "idle", run_timestamp |-> 0, force |-> FALSE,
     steps |-> {}, results |-> [s \in {"ingest", "validate", "clean", "publish"} |-> "none"],
     overall_success |-> TRUE, outcome |-> "none", report |-> "",
     ingestion_results |-> [status |-> "none"],
     validation_results |-> [status |-> "none"],
     cleaning_results |-> [status |-> "none"],
     publishing_results |-> [status |-> "none"],
     status |-> ""]

\* a stable directory published before the engine was constructed
PriorStable ==
    [exists |-> TRUE,
     files |-> {[sub |-> <<>>, name |-> "households.csv", rows |-> 1, ok |-> TRUE,
                 gen |-> 0]},
     recs |-> {[ts |-> 0, mt |-> 0, complete |-> TRUE,
                json |-> [publication_timestamp |-> 0, publication_date |-> 0,
                          datasets_published |->
                              {[file |-> "households.csv", path |-> <<>>, records |-> 1,
                                last_modified |-> [type |-> "str", v |-> 0]]},
                          total_records_published |-> 1,
                          backup_created |-> FALSE]]}]

\* PublishingEngine.__init__ over a project that has, or has not, published before
Init ==
    /\ now = 1
    /\ backup_previous \in BOOLEAN
    /\ cleaned = NoDir
    /\ consolidated = NoDir
    /\ archive = [t \in Timestamps |-> NoDir]
    /\ stable \in {NoDir, PriorStable}
    /\ siblings = [n \in Names |-> NoDir]
    /\ pc = [p \in Procs |-> "idle"]
    /\ loc = [p \in Procs |-> LocInit]
    /\ result = [p \in Procs |-> NoResult]
    /\ pre = [p \in Procs |-> FS]
    /\ hist = HistInit
    /\ gen = 0
    /\ tree = NoTree
    /\ run = NoRun

Goto(p, l) == pc' = [pc EXCEPT ![p] = l]

\* the call of p ends: r is what its caller gets
Return(p, r) ==
    /\ pc' = [pc EXCEPT ![p] = "idle"]
    /\ loc' = [loc EXCEPT ![p] = LocInit]
    /\ result' = [result EXCEPT ![p] = r]

\* return {'success': False, 'error': ...}
Failure(p, e) ==
    [NoResult EXCEPT !.kind = "returned", !.op = loc[p].op, !.error = e,
                     !.run_timestamp = loc[p].ts, !.force = loc[p].force]

\* an exception leaves the call
Raised(p, e) ==
    [NoResult EXCEPT !.kind = "raised", !.op = loc[p].op, !.error = e,
                     !.run_timestamp = loc[p].ts, !.force = loc[p].force]

\* raise e at the current statement: the enclosing try of publish_data or
\* rollback_publication, if the statement is inside it, turns it into a result
Throw(p, e) == Return(p, IF loc[p].inTry THEN Failure(p, e) ELSE Raised(p, e))

\* one more filesystem failure or kill is injected
Faulted == hist.faults < MaxFaults /\ hist' = [hist EXCEPT !.faults = @ + 1]

-----------------------------------------------------------------------------
(* Environment *)

Idle == \A p \in DOMAIN pc : pc[p] = "idle"

\* the clock moves on between calls
Tick ==
    /\ Idle
    /\ now < MaxTime
    /\ now' = now + 1
    /\ UNCHANGED <<run, tree, backup_previous, fsVars, pc, loc, result, pre, hist, gen>>

\* publish.backup_previous is switched off in the configuration between two
\* commands: each command builds its PublishingEngine from the configuration
Reconfigure ==
    /\ Idle
    /\ backup_previous
    /\ backup_previous' = FALSE
    /\ UNCHANGED <<run, tree, now, fsVars, pc, loc, result, pre, hist, gen>>

StageProduce(layout) ==
    /\ Idle
    /\ cleaned.files = {}
    /\ gen < MaxGen
    /\ gen' = gen + 1
    /\ cleaned' = [exists |-> TRUE, files |-> Stamp(layout, gen + 1), recs |-> {}]
    /\ hist' = [hist EXCEPT !.archived = FALSE]
    /\ UNCHANGED <<run, tree, now, backup_previous, consolidated, archive, stable, siblings,
                   pc, loc, result, pre>>

-----------------------------------------------------------------------------
(* utils.backup_directory(source = stable, backup_name) *)

\* lines 116-124: no source, no backup; else remove a backup of the same name
BackupDirectoryCheck(p) ==
    /\ pc[p] = "bd_check"
    /\ IF ~stable.exists
       THEN /\ loc' = [loc EXCEPT ![p].bdResult = None]
            /\ Goto(p, loc[p].bdRet)
            /\ UNCHANGED siblings
       ELSE /\ siblings' = [siblings EXCEPT ![loc[p].bdName] = NoDir]
            /\ Goto(p, "bd_copy")
            /\ UNCHANGED loc
    /\ UNCHANGED <<run, tree, now, backup_previous, cleaned, consolidated, archive, stable,
                   result, pre, hist, gen>>

\* shutil.copytree replaced by a copy of the dataset files alone
BackupDirectoryCopy_DatasetsOnly(p) ==
    /\ pc[p] = "bd_copy"
    /\ IF stable.exists /\ ~siblings[loc[p].bdName].exists
       THEN /\ siblings' = [siblings EXCEPT ![loc[p].bdName] =
                               [stable EXCEPT !.recs = {}]]
            /\ loc' = [loc EXCEPT ![p].bdResult = loc[p].bdName]
            /\ Goto(p, loc[p].bdRet)
            /\ UNCHANGED result
       ELSE /\ Throw(p, IF stable.exists THEN "FileExistsError" ELSE "FileNotFoundError")
            /\ UNCHANGED siblings
    /\ UNCHANGED <<run, tree, now, backup_previous, cleaned, consolidated, archive, stable,
                   pre, hist, gen>>

\* lines 126-127: shutil.copytree(source, backup_path)
BackupDirectoryCopy(p) ==
    /\ pc[p] = "bd_copy"
    /\ IF stable.exists /\ ~siblings[loc[p].bdName].exists
       THEN /\ siblings' = [siblings EXCEPT ![loc[p].bdName] = stable]
            /\ loc' = [loc EXCEPT ![p].bdResult = loc[p].bdName]
            /\ Goto(p, loc[p].bdRet)
            /\ UNCHANGED result
       ELSE /\ Throw(p, IF stable.exists THEN "FileExistsError" ELSE "FileNotFoundError")
            /\ UNCHANGED siblings
    /\ UNCHANGED <<run, tree, now, backup_previous, cleaned, consolidated, archive, stable,
                   pre, hist, gen>>

\* rmtree or copytree fails on the filesystem: the copy stops after creating
\* the backup directory
BackupDirectoryFault(p) ==
    /\ \/ /\ pc[p] = "bd_check"
          /\ stable.exists /\ siblings[loc[p].bdName].exists
          /\ UNCHANGED siblings
       \/ /\ pc[p] = "bd_copy"
          /\ siblings' = [siblings EXCEPT ![loc[p].bdName] = EmptyDir]
    /\ Throw(p, "OSError")
    /\ Faulted
    /\ UNCHANGED <<run, tree, now, backup_previous, cleaned, consolidated, archive, stable,
                   pre, gen>>

\* PublishingEngine.create_backup(run_timestamp), lines 143-152, called with
\* the backup's name; ret is the statement after the call
create_backup(p, name, ret) ==
    IF ~backup_previous \/ ~stable.exists \/ IsEmpty(stable)
    THEN /\ loc' = [loc EXCEPT ![p].bdResult = None]
         /\ Goto(p, ret)
    ELSE /\ loc' = [loc EXCEPT ![p].bdName = name, ![p].bdRet = ret]
         /\ Goto(p, "bd_check")

-----------------------------------------------------------------------------
(* utils.atomic_directory_swap(source, target = stable, backup) *)

TempName == [kind |-> "cleaned_stable_temp", ts |-> create_run_timestamp]
SwapBackupName == [kind |-> "cleaned_stable_backup", ts |-> create_run_timestamp]

\* the backup of lines 147-149 missing
SwapCheck_NoBackup(p) ==
    /\ pc[p] = "swap_check"
    /\ IF ~DirAt(loc[p].source).exists
       THEN Throw(p, "FileNotFoundError")
       ELSE /\ UNCHANGED result
            /\ Goto(p, "swap_copy")
            /\ UNCHANGED loc
    /\ UNCHANGED <<run, tree, now, backup_previous, fsVars, pre, hist, gen>>

\* lines 141-149
SwapCheck(p) ==
    /\ pc[p] = "swap_check"
    /\ IF ~DirAt(loc[p].source).exists
       THEN Throw(p, "FileNotFoundError")
       ELSE /\ UNCHANGED result
            /\ IF loc[p].backup /\ stable.exists
               THEN /\ loc' = [loc EXCEPT ![p].bdName = SwapBackupName,
                                          ![p].bdRet = "swap_copy"]
                    /\ Goto(p, "bd_check")
               ELSE /\ Goto(p, "swap_copy")
                    /\ UNCHANGED loc
    /\ UNCHANGED <<run, tree, now, backup_previous, fsVars, pre, hist, gen>>

\* lines 152-156, and 167-171 when copytree finds the temporary name taken
SwapCopy(p) ==
    /\ pc[p] = "swap_copy"
    /\ IF ~DirAt(loc[p].source).exists \/ siblings[TempName].exists
       THEN /\ siblings' = [siblings EXCEPT ![TempName] = NoDir]
            /\ Throw(p, IF ~DirAt(loc[p].source).exists
                        THEN "FileNotFoundError" ELSE "FileExistsError")
       ELSE /\ siblings' = [siblings EXCEPT ![TempName] = DirAt(loc[p].source)]
            /\ loc' = [loc EXCEPT ![p].temp = TempName]
            /\ Goto(p, "swap_rmtree")
            /\ UNCHANGED result
    /\ UNCHANGED <<run, tree, now, backup_previous, cleaned, consolidated, archive, stable,
                   pre, hist, gen>>

\* lines 159-160: shutil.rmtree(target) removes the entries one by one, then
\* the directory itself
SwapRmtree(p) ==
    /\ pc[p] = "swap_rmtree"
    /\ IF ~stable.exists
       THEN /\ Goto(p, "swap_rename")
            /\ UNCHANGED stable
       ELSE IF IsEmpty(stable)
       THEN /\ stable' = NoDir
            /\ Goto(p, "swap_rename")
       ELSE /\ \/ \E f \in stable.files : stable' = [stable EXCEPT !.files = @ \ {f}]
               \/ \E r \in stable.recs : stable' = [stable EXCEPT !.recs = @ \ {r}]
            /\ UNCHANGED pc
    /\ UNCHANGED <<run, tree, now, backup_previous, cleaned, consolidated, archive, siblings,
                   loc, result, pre, hist, gen>>

\* line 163: temp_path.rename(target); renaming onto a directory that is not
\* empty, or from a name that is gone, raises, and lines 167-171 clean up
SwapRename(p) ==
    /\ pc[p] = "swap_rename"
    /\ IF ~siblings[loc[p].temp].exists
       THEN /\ Throw(p, "FileNotFoundError")
            /\ UNCHANGED <<stable, siblings>>
       ELSE IF stable.exists /\ ~IsEmpty(stable)
       THEN /\ siblings' = [siblings EXCEPT ![loc[p].temp] = NoDir]
            /\ Throw(p, "OSError")
            /\ UNCHANGED stable
       ELSE /\ stable' = siblings[loc[p].temp]
            /\ siblings' = [siblings EXCEPT ![loc[p].temp] = NoDir]
            /\ Goto(p, loc[p].swapRet)
            /\ UNCHANGED <<loc, result>>
    /\ UNCHANGED <<run, tree, now, backup_previous, cleaned, consolidated, archive,
                   pre, hist, gen>>

\* the cleanup of lines 167-171 missing: the temporary directory stays
SwapFault_NoCleanup(p) ==
    /\ \/ /\ pc[p] = "swap_copy"
          /\ DirAt(loc[p].source).exists
          /\ siblings' = [siblings EXCEPT ![TempName] = EmptyDir]
       \/ /\ pc[p] = "swap_rmtree"
          /\ stable.exists
          /\ UNCHANGED siblings
       \/ /\ pc[p] = "swap_rename"
          /\ siblings[loc[p].temp].exists
          /\ UNCHANGED siblings
    /\ Throw(p, "OSError")
    /\ Faulted
    /\ UNCHANGED <<run, tree, now, backup_previous, cleaned, consolidated, archive, stable,
                   pre, gen>>

\* copytree, rmtree or rename fails on the filesystem; lines 167-171 remove
\* the temporary directory and raise again
SwapFault(p) ==
    /\ \/ /\ pc[p] = "swap_copy"
          /\ DirAt(loc[p].source).exists
          /\ siblings' = [siblings EXCEPT ![TempName] = NoDir]
       \/ /\ pc[p] = "swap_rmtree"
          /\ stable.exists
          /\ siblings' = [siblings EXCEPT ![loc[p].temp] = NoDir]
       \/ /\ pc[p] = "swap_rename"
          /\ siblings[loc[p].temp].exists
          /\ siblings' = [siblings EXCEPT ![loc[p].temp] = NoDir]
    /\ Throw(p, "OSError")
    /\ Faulted
    /\ UNCHANGED <<run, tree, now, backup_previous, cleaned, consolidated, archive, stable,
                   pre, gen>>

-----------------------------------------------------------------------------
(* PublishingEngine.publish_data(run_timestamp, force) *)

\* a lock around publish_data: the call waits until no other call is running
PublishCall_Locked(p, run_timestamp, force) ==
    /\ \A q \in DOMAIN pc : pc[q] = "idle"
    /\ hist.ops < MaxOps
    /\ Goto(p, "pub_validate")
    /\ loc' = [loc EXCEPT ![p] = [LocInit EXCEPT !.op = "publish",
                                                 !.ts = run_timestamp,
                                                 !.force = force]]
    /\ pre' = [pre EXCEPT ![p] = FS]
    /\ hist' = [hist EXCEPT !.ops = @ + 1, !.snap[run_timestamp] = NoSnap]
    /\ result' = [result EXCEPT ![p] = NoResult]
    /\ UNCHANGED <<run, tree, now, backup_previous, fsVars, gen>>

PublishCall(p, run_timestamp, force) ==
    /\ pc[p] = "idle"
    /\ hist.ops < MaxOps
    /\ Goto(p, "pub_validate")
    /\ loc' = [loc EXCEPT ![p] = [LocInit EXCEPT !.op = "publish",
                                                 !.ts = run_timestamp,
                                                 !.force = force]]
    /\ pre' = [pre EXCEPT ![p] = FS]
    /\ hist' = [hist EXCEPT !.ops = @ + 1, !.snap[run_timestamp] = NoSnap]
    /\ result' = [result EXCEPT ![p] = NoResult]
    /\ UNCHANGED <<run, tree, now, backup_previous, fsVars, gen>>

\* the early return of lines 177-183 missing: an invalid result is carried on
PublishValidate_NoReturn(p) ==
    /\ pc[p] = "pub_validate"
    /\ IF ~loc[p].force
       THEN LET validation_results == validate_staging_data(cleaned) IN
            /\ loc' = [loc EXCEPT ![p].vr =
                          [datasets_found |-> validation_results.datasets_found,
                           total_records |-> validation_results.total_records]]
            /\ Goto(p, "pub_backup")
            /\ UNCHANGED result
       ELSE /\ loc' = [loc EXCEPT ![p].vr = ForcedValidation]
            /\ Goto(p, "pub_backup")
            /\ UNCHANGED result
    /\ UNCHANGED <<run, tree, now, backup_previous, fsVars, pre, hist, gen>>

\* force not consulted: validation always runs and stops the call
PublishValidate_IgnoresForce(p) ==
    /\ pc[p] = "pub_validate"
    /\ LET validation_results == validate_staging_data(cleaned) IN
       IF ~validation_results.valid
       THEN Return(p, [Failure(p, "Staging data validation failed")
                          EXCEPT !.issues = validation_results.issues])
       ELSE /\ loc' = [loc EXCEPT ![p].vr =
                          [datasets_found |-> validation_results.datasets_found,
                           total_records |-> validation_results.total_records]]
            /\ Goto(p, "pub_backup")
            /\ UNCHANGED result
    /\ UNCHANGED <<run, tree, now, backup_previous, fsVars, pre, hist, gen>>

\* lines 174-186
PublishValidate(p) ==
    /\ pc[p] = "pub_validate"
    /\ IF ~loc[p].force
       THEN LET validation_results == validate_staging_data(cleaned) IN
            IF ~validation_results.valid
            THEN Return(p, [Failure(p, "Staging data validation failed")
                               EXCEPT !.issues = validation_results.issues])
            ELSE /\ loc' = [loc EXCEPT ![p].vr =
                               [datasets_found |-> validation_results.datasets_found,
                                total_records |-> validation_results.total_records]]
                 /\ Goto(p, "pub_backup")
                 /\ UNCHANGED result
       ELSE /\ loc' = [loc EXCEPT ![p].vr = ForcedValidation]
            /\ Goto(p, "pub_backup")
            /\ UNCHANGED result
    /\ UNCHANGED <<run, tree, now, backup_previous, fsVars, pre, hist, gen>>

\* line 189
PublishCreateBackup(p) ==
    /\ pc[p] = "pub_backup"
    /\ create_backup(p, [kind |-> "stable_backup", ts |-> loc[p].ts], "pub_metadata")
    /\ UNCHANGED <<run, tree, now, backup_previous, fsVars, result, pre, hist, gen>>

\* lines 154-159 and 192; the try of line 194 starts here
PublishMetadata(p) ==
    /\ pc[p] = "pub_metadata"
    /\ loc' = [loc EXCEPT ![p].backup_path = loc[p].bdResult,
                          ![p].metadata = create_publication_metadata(loc[p].ts, loc[p].vr),
                          ![p].inTry = TRUE]
    /\ Goto(p, "pub_prepare")
    /\ UNCHANGED <<run, tree, now, backup_previous, fsVars, result, pre, hist, gen>>

\* the dataset file a descriptor's path names now
FileOf(d) == {f \in cleaned.files : f.sub = d.path /\ f.name = d.file}

\* one file per name: shutil.copy2 of a later dataset overwrites an earlier one
OnePerName(W, fs) ==
    /\ \A f \in fs : \E g \in W : g.name = f.name
    /\ \A f, g \in W : f.name = g.name => f = g

\* _prepare_staging_for_publication, lines 250-275, and the swap's arguments
\* of lines 199-203
PublishPrepare(p) ==
    /\ pc[p] = "pub_prepare"
    /\ LET datasets == loc[p].vr.datasets_found
           all_direct == \A d \in datasets : d.path = <<>>
           found == UNION {FileOf(d) : d \in datasets}
       IN IF all_direct
          THEN /\ loc' = [loc EXCEPT ![p].source = CleanedRef,
                                     ![p].backup = backup_previous,
                                     ![p].swapRet = "pub_meta_open"]
               /\ Goto(p, "swap_check")
               /\ UNCHANGED <<consolidated, result>>
          ELSE IF \E d \in datasets : FileOf(d) = {}
          THEN /\ consolidated' = EmptyDir
               /\ Throw(p, "FileNotFoundError")
          ELSE /\ \E W \in SUBSET found :
                     /\ OnePerName(W, found)
                     /\ consolidated' = [exists |-> TRUE,
                                         files |-> {[f EXCEPT !.sub = <<>>] : f \in W},
                                         recs |-> {}]
               /\ loc' = [loc EXCEPT ![p].source = ConsolidatedRef,
                                     ![p].backup = backup_previous,
                                     ![p].swapRet = "pub_meta_open"]
               /\ Goto(p, "swap_check")
               /\ UNCHANGED result
    /\ UNCHANGED <<run, tree, now, backup_previous, cleaned, archive, stable, siblings,
                   pre, hist, gen>>

\* mkdir, unlink or copy2 of lines 260-272 fails on the filesystem
PublishPrepareFault(p) ==
    /\ pc[p] = "pub_prepare"
    /\ \E d \in loc[p].vr.datasets_found : d.path # <<>>
    /\ consolidated' = EmptyDir
    /\ Throw(p, "OSError")
    /\ Faulted
    /\ UNCHANGED <<run, tree, now, backup_previous, cleaned, archive, stable, siblings,
                   pre, gen>>

RecordOf(d, ts) == {r \in d.recs : r.ts = ts}

\* lines 205-209: open(metadata_file, 'w') creates or truncates the file
PublishMetaOpen(p) ==
    /\ pc[p] = "pub_meta_open"
    /\ IF ~stable.exists
       THEN /\ Throw(p, "FileNotFoundError")
            /\ UNCHANGED stable
       ELSE /\ stable' = [stable EXCEPT !.recs =
                            (@ \ RecordOf(stable, loc[p].ts))
                            \cup {[ts |-> loc[p].ts, mt |-> now, complete |-> FALSE,
                                   json |-> NoMeta]}]
            /\ Goto(p, "pub_meta_dump")
            /\ UNCHANGED <<loc, result>>
    /\ UNCHANGED <<run, tree, now, backup_previous, cleaned, consolidated, archive, siblings,
                   pre, hist, gen>>

\* line 210: json.dump(metadata, f, indent=2, default=str)
PublishMetaDump(p) ==
    /\ pc[p] = "pub_meta_dump"
    /\ stable' = [stable EXCEPT !.recs =
                     {IF r.ts = loc[p].ts /\ ~r.complete
                      THEN [r EXCEPT !.complete = TRUE, !.mt = now,
                                     !.json = json_dump(loc[p].metadata)]
                      ELSE r : r \in @}]
    /\ Goto(p, "pub_cleanup")
    /\ UNCHANGED <<run, tree, now, backup_previous, cleaned, consolidated, archive, siblings,
                   loc, result, pre, hist, gen>>

\* open or json.dump fails on the filesystem: what was written stays
PublishMetaFault(p) ==
    /\ pc[p] \in {"pub_meta_open", "pub_meta_dump"}
    /\ stable.exists
    /\ Throw(p, "OSError")
    /\ Faulted
    /\ UNCHANGED <<run, tree, now, backup_previous, fsVars, pre, gen>>

\* lines 217-224, and what the call adds to the history (nf: the filesystem
\* failures injected in the step; ok: _cleanup_staging reached its end, which
\* hist.archived remembers until new staging content is produced)
PublishSuccess(p, nf, ok) ==
    /\ Return(p, [NoResult EXCEPT
                    !.kind = "returned", !.op = "publish", !.success = TRUE,
                    !.metadata = loc[p].metadata,
                    !.backup_path = loc[p].backup_path,
                    !.datasets_published = Cardinality(loc[p].vr.datasets_found),
                    !.total_records = loc[p].vr.total_records,
                    !.run_timestamp = loc[p].ts, !.force = loc[p].force])
    /\ hist' = [hist EXCEPT
                    !.faults = @ + nf,
                    !.pubs = @ \cup {loc[p].ts},
                    !.npubs = @ + 1,
                    !.archived = ok,
                    !.snap[loc[p].ts] =
                        IF backup_previous /\ pre[p].stable.exists
                           /\ ~IsEmpty(pre[p].stable)
                        THEN [valid |-> TRUE, dir |-> pre[p].stable]
                        ELSE NoSnap]

\* shutil.move putting the files directly into the archive directory
MovedTo_Flat(d, name, fs) == Below(<<>>, fs)

\* shutil.move(src, dst) of a directory whose files are fs, seen from the
\* directory d that holds dst = d / name: into dst if dst is a directory
MovedTo(d, name, fs) ==
    IF HasSub(d, <<name>>) THEN Below(<<name, name>>, fs) ELSE Below(<<name>>, fs)

\* shutil.move finding nothing to move
FilesUnder_Nothing(d, name) == {}

FilesUnder(d, name) == {f \in d.files : Len(f.sub) > 0 /\ f.sub[1] = name}
StripTop(fs) == {[f EXCEPT !.sub = Tail(@)] : f \in fs}

\* shutil.move (line 295 or 302) or iterdir (line 292) raises: the destination
\* exists already, or staging/cleaned is gone
ArchiveFails(p) ==
    LET arch == archive[loc[p].ts] IN
    /\ DirAt(loc[p].source).exists
    /\ IF loc[p].source = ConsolidatedRef
       THEN ~cleaned.exists \/ \E n \in TopSubdirs(cleaned) : HasSub(arch, <<n, n>>)
       ELSE arch.exists /\ HasSub(arch, <<"cleaned">>)

\* _cleanup_staging(run_timestamp, consolidated_staging), lines 279-303, and
\* the return of lines 217-224
PublishCleanup(p) ==
    /\ pc[p] = "pub_cleanup"
    /\ LET ts == loc[p].ts
           arch == archive[ts]
           subs == TopSubdirs(cleaned)
           clash == {n \in subs : HasSub(arch, <<n, n>>)}
       IN
       IF ~DirAt(loc[p].source).exists
       THEN UNCHANGED <<cleaned, consolidated, archive>>
       ELSE IF loc[p].source = ConsolidatedRef
       THEN IF ~cleaned.exists
            THEN UNCHANGED <<cleaned, consolidated, archive>>
            ELSE \E moved \in SUBSET (subs \ clash) :
                    /\ clash = {} => moved = subs
                    /\ archive' = [archive EXCEPT ![ts] =
                          [exists |-> arch.exists \/ moved # {},
                           files |-> arch.files \cup
                              UNION {MovedTo(arch, n, StripTop(FilesUnder(cleaned, n)))
                                     : n \in moved},
                           recs |-> arch.recs]]
                    /\ cleaned' = [cleaned EXCEPT !.files =
                          @ \ UNION {FilesUnder(cleaned, n) : n \in moved}]
                    /\ consolidated' = IF clash = {} THEN NoDir ELSE consolidated
       ELSE IF ~arch.exists
       THEN /\ archive' = [archive EXCEPT ![ts] = cleaned]
            /\ cleaned' = NoDir
            /\ UNCHANGED consolidated
       ELSE IF HasSub(arch, <<"cleaned">>)
       THEN UNCHANGED <<cleaned, consolidated, archive>>
       ELSE /\ archive' = [archive EXCEPT ![ts].files =
                             @ \cup Below(<<"cleaned">>, cleaned.files)]
            /\ cleaned' = NoDir
            /\ UNCHANGED consolidated
    /\ PublishSuccess(p, 0, ~ArchiveFails(p))
    /\ UNCHANGED <<run, tree, now, backup_previous, stable, siblings, pre, gen>>

\* the except of lines 305-306 missing: the failure leaves _cleanup_staging
PublishCleanupFault_Fatal(p) ==
    /\ pc[p] = "pub_cleanup"
    /\ Throw(p, "OSError")
    /\ Faulted
    /\ UNCHANGED <<run, tree, now, backup_previous, fsVars, pre, gen>>

\* mkdir or shutil.move of lines 282-302 fails on the filesystem: line 306
\* logs it and the call returns as above
PublishCleanupFault(p) ==
    /\ pc[p] = "pub_cleanup"
    /\ hist.faults < MaxFaults
    /\ PublishSuccess(p, 1, FALSE)
    /\ UNCHANGED <<run, tree, now, backup_previous, fsVars, pre, gen>>

-----------------------------------------------------------------------------
(* PublishingEngine.rollback_publication(backup_timestamp) *)

\* what backup_timestamp can name: stable_backup_<ts>, or the snapshot
\* stable_backup_pre_rollback_<ts> of an earlier rollback
RollbackTargets == {n \in Names : n.kind \in {"stable_backup", "stable_backup_pre_rollback"}}

RollbackCall(p, target) ==
    /\ pc[p] = "idle"
    /\ hist.ops < MaxOps
    /\ Goto(p, "rb_find")
    /\ loc' = [loc EXCEPT ![p] = [LocInit EXCEPT !.op = "rollback", !.tag = target]]
    /\ pre' = [pre EXCEPT ![p] = FS]
    /\ hist' = [hist EXCEPT !.ops = @ + 1, !.rollbacks = @ + 1]
    /\ result' = [result EXCEPT ![p] = NoResult]
    /\ UNCHANGED <<run, tree, now, backup_previous, fsVars, gen>>

\* the not-found return of lines 324-328 missing
RollbackFind_NoCheck(p) ==
    /\ pc[p] = "rb_find"
    /\ loc' = [loc EXCEPT ![p].source = loc[p].tag, ![p].inTry = TRUE,
                          ![p].current_timestamp = create_run_timestamp]
    /\ Goto(p, "rb_backup")
    /\ UNCHANGED result
    /\ UNCHANGED <<run, tree, now, backup_previous, fsVars, pre, hist, gen>>

\* lines 320-334; the try of line 332 starts here
RollbackFind(p) ==
    /\ pc[p] = "rb_find"
    /\ IF ~siblings[loc[p].tag].exists
       THEN Return(p, [Failure(p, "No backup found") EXCEPT !.restored_from = loc[p].tag])
       ELSE /\ loc' = [loc EXCEPT ![p].source = loc[p].tag, ![p].inTry = TRUE,
                                  ![p].current_timestamp = create_run_timestamp]
            /\ Goto(p, "rb_backup")
            /\ UNCHANGED result
    /\ UNCHANGED <<run, tree, now, backup_previous, fsVars, pre, hist, gen>>

\* line 335: create_backup(f"pre_rollback_{current_timestamp}")
RollbackCreateBackup(p) ==
    /\ pc[p] = "rb_backup"
    /\ create_backup(p, [kind |-> "stable_backup_pre_rollback",
                         ts |-> loc[p].current_timestamp], "rb_swap")
    /\ UNCHANGED <<run, tree, now, backup_previous, fsVars, result, pre, hist, gen>>

\* lines 338-342
RollbackSwap(p) ==
    /\ pc[p] = "rb_swap"
    /\ loc' = [loc EXCEPT ![p].current_backup = loc[p].bdResult,
                          ![p].backup = TRUE,
                          ![p].swapRet = "rb_return"]
    /\ Goto(p, "swap_check")
    /\ UNCHANGED <<run, tree, now, backup_previous, fsVars, result, pre, hist, gen>>

\* lines 344-351
RollbackReturn(p) ==
    /\ pc[p] = "rb_return"
    /\ Return(p, [NoResult EXCEPT
                    !.kind = "returned", !.op = "rollback", !.success = TRUE,
                    !.restored_from = loc[p].tag,
                    !.current_backup = loc[p].current_backup,
                    !.rollback_timestamp = loc[p].current_timestamp])
    /\ UNCHANGED <<run, tree, now, backup_previous, fsVars, pre, hist, gen>>

-----------------------------------------------------------------------------

Step(p) ==
    \/ \E force \in BOOLEAN : PublishCall(p, create_run_timestamp, force)
    \/ PublishValidate(p)
    \/ PublishCreateBackup(p)
    \/ PublishMetadata(p)
    \/ PublishPrepare(p)
    \/ PublishPrepareFault(p)
    \/ PublishMetaOpen(p)
    \/ PublishMetaDump(p)
    \/ PublishMetaFault(p)
    \/ PublishCleanup(p)
    \/ PublishCleanupFault(p)
    \/ \E n \in RollbackTargets : RollbackCall(p, n)
    \/ RollbackFind(p)
    \/ RollbackCreateBackup(p)
    \/ RollbackSwap(p)
    \/ RollbackReturn(p)
    \/ BackupDirectoryCheck(p)
    \/ BackupDirectoryCopy(p)
    \/ BackupDirectoryFault(p)
    \/ SwapCheck(p)
    \/ SwapCopy(p)
    \/ SwapRmtree(p)
    \/ SwapRename(p)
    \/ SwapFault(p)

Next ==
    \/ Tick
    \/ Reconfigure
    \/ \E layout \in Layouts : StageProduce(layout)
    \/ \E p \in Procs : Step(p)

Spec == Init /\ [][Next]_vars

-----------------------------------------------------------------------------
(* validate_staging_data over arbitrary staging content *)

MaxRows == 2

StagingPaths == {<<<<>>, "households.csv">>, <<<<>>, "members.csv">>,
                 <<<<"run1">>, "households.csv">>, <<<<"run2">>, "households.csv">>}

StagingContents ==
    {[present |-> FALSE, ok |-> FALSE, rows |-> 0],
     [present |-> TRUE, ok |-> FALSE, rows |-> 0]}
    \cup {[present |-> TRUE, ok |-> TRUE, rows |-> r] : r \in 0..MaxRows}

StagingOf(c) ==
    [exists |-> TRUE,
     files |-> {[sub |-> q[1], name |-> q[2], rows |-> c[q].rows, ok |-> c[q].ok,
                 gen |-> 1] : q \in {x \in StagingPaths : c[x].present}},
     recs |-> {}]

InitValidate ==
    /\ now = 1
    /\ backup_previous \in BOOLEAN
    /\ cleaned \in {NoDir} \cup {StagingOf(c) : c \in [StagingPaths -> StagingContents]}
    /\ consolidated = NoDir
    /\ archive = [t \in Timestamps |-> NoDir]
    /\ stable \in {NoDir, PriorStable}
    /\ siblings = [n \in Names |-> NoDir]
    /\ pc = [p \in Procs |-> "idle"]
    /\ loc = [p \in Procs |-> LocInit]
    /\ result = [p \in Procs |-> NoResult]
    /\ pre = [p \in Procs |-> FS]
    /\ hist = HistInit
    /\ gen = 1
    /\ tree = NoTree
    /\ run = NoRun

NextValidate ==
    \E p \in Procs :
        \/ PublishCall(p, create_run_timestamp, FALSE)
        \/ PublishValidate(p)

SpecValidate == InitValidate /\ [][NextValidate]_vars

-----------------------------------------------------------------------------
(* PublishingEngine.list_publications over arbitrary record files *)

MaxRecs == 3

\* the orders a list of the files of S can have
Perms(S) ==
    {q \in [1..Cardinality(S) -> S] : \A i, j \in DOMAIN q : i # j => q[i] # q[j]}

\* line 379: sort(key=st_mtime, reverse=True); files of equal mtime stay in
\* the order glob gave them, which is any
SortedByMtimeDesc(S) ==
    {q \in Perms(S) : \A i, j \in DOMAIN q : i < j => q[i].mt >= q[j].mt}

\* json.load succeeds on the file
Parses(r) == r.complete

\* lines 381-388: the files that parse, in the order of the sorted list
Loaded(q) ==
    LET kept == SelectSeq(q, Parses)
    IN [i \in DOMAIN kept |-> json_load(kept[i].json)]

\* the sort without reverse=True
list_publications_Ascending ==
    IF ~stable.exists THEN {<<>>}
    ELSE {Loaded(q) : q \in {x \in Perms(stable.recs) :
                                \A i, j \in DOMAIN x : i < j => x[i].mt <= x[j].mt}}

\* lines 372-390: the lists the call can return
list_publications ==
    IF ~stable.exists THEN {<<>>}
    ELSE {Loaded(q) : q \in SortedByMtimeDesc(stable.recs)}

ListPublications(p) ==
    /\ pc[p] = "idle"
    /\ \E publications \in list_publications :
          result' = [result EXCEPT ![p] =
                        [NoResult EXCEPT !.kind = "returned", !.op = "list",
                                         !.success = TRUE,
                                         !.publications = publications]]
    /\ UNCHANGED <<run, tree, now, backup_previous, fsVars, pc, loc, pre, hist, gen>>

\* a record file of the stable directory: written whole, or cut short
RecordFile(ts, mt, complete) ==
    [ts |-> ts, mt |-> mt, complete |-> complete,
     json |-> IF complete THEN [NoMeta EXCEPT !.publication_timestamp = ts,
                                              !.publication_date = mt]
              ELSE NoMeta]

RecordSets ==
    {{RecordFile(ts, c[ts].mt, c[ts].complete) : ts \in {t \in 1..MaxRecs : c[t].present}}
        : c \in [1..MaxRecs -> [present : BOOLEAN, mt : 0..MaxTime, complete : BOOLEAN]]}

InitList ==
    /\ now = MaxTime
    /\ backup_previous \in BOOLEAN
    /\ cleaned = NoDir
    /\ consolidated = NoDir
    /\ archive = [t \in Timestamps |-> NoDir]
    /\ stable \in {NoDir} \cup {[exists |-> TRUE, files |-> {}, recs |-> R] : R \in RecordSets}
    /\ siblings = [n \in Names |-> NoDir]
    /\ pc = [p \in Procs |-> "idle"]
    /\ loc = [p \in Procs |-> LocInit]
    /\ result = [p \in Procs |-> NoResult]
    /\ pre = [p \in Procs |-> FS]
    /\ hist = HistInit
    /\ gen = 0
    /\ tree = NoTree
    /\ run = NoRun

NextList == \E p \in Procs : ListPublications(p)

SpecList == InitList /\ [][NextList]_vars

-----------------------------------------------------------------------------
(* Two publish commands at once on one project *)

Publishers == {1, 2}

\* the clock moves on before the later of the two commands starts
TickDuring ==
    /\ \E p \in DOMAIN pc : pc[p] = "idle" /\ result[p].kind = "none"
    /\ now < MaxTime
    /\ now' = now + 1
    /\ UNCHANGED <<run, tree, backup_previous, fsVars, pc, loc, result, pre, hist, gen>>

InitConcurrent ==
    /\ now = 1
    /\ backup_previous \in BOOLEAN
    /\ cleaned \in {[exists |-> TRUE, files |-> Stamp(layout, 1), recs |-> {}]
                        : layout \in {l \in Layouts \ {{}} :
                                          \A f, g \in l : Len(f.sub) = Len(g.sub)}}
    /\ consolidated = NoDir
    /\ archive = [t \in Timestamps |-> NoDir]
    /\ stable = PriorStable
    /\ siblings = [n \in Names |-> NoDir]
    /\ pc = [p \in Publishers |-> "idle"]
    /\ loc = [p \in Publishers |-> LocInit]
    /\ result = [p \in Publishers |-> NoResult]
    /\ pre = [p \in Publishers |-> FS]
    /\ hist = HistInit
    /\ gen = 1
    /\ tree = NoTree
    /\ run = NoRun

\* each command calls publish_data once (cli.py line 429)
StepConcurrent(p) ==
    \/ result[p].kind = "none" /\ PublishCall(p, create_run_timestamp, FALSE)
    \/ PublishValidate(p)
    \/ PublishCreateBackup(p)
    \/ PublishMetadata(p)
    \/ PublishPrepare(p)
    \/ PublishMetaOpen(p)
    \/ PublishMetaDump(p)
    \/ PublishCleanup(p)
    \/ BackupDirectoryCheck(p)
    \/ BackupDirectoryCopy(p)
    \/ SwapCheck(p)
    \/ SwapCopy(p)
    \/ SwapRmtree(p)
    \/ SwapRename(p)

NextConcurrent ==
    \/ TickDuring
    \/ \E p \in Publishers : StepConcurrent(p)

SpecConcurrent == InitConcurrent /\ [][NextConcurrent]_vars

-----------------------------------------------------------------------------
(* utils.ensure_directory over arbitrary trees of work directories *)

MaxDepth == 2

DirNames == {"staging", "raw"}

\* the paths below the project root, which exists
Paths == UNION {[1..n -> DirNames] : n \in 1..MaxDepth}

Parent(path) == SubSeq(path, 1, Len(path) - 1)

Prefixes(path) == {SubSeq(path, 1, k) : k \in 1..Len(path)}

KindAt(nodes, path) == IF path = <<>> THEN "dir" ELSE nodes[path]

\* what exists lies in a directory
Trees ==
    {nodes \in [Paths -> {"absent", "file", "dir"}] :
        \A path \in Paths :
            nodes[path] # "absent" => KindAt(nodes, Parent(path)) = "dir"}

\* pathlib.Path.mkdir(parents=True, exist_ok=True): os.mkdir; on
\* FileNotFoundError the parent first and then the path; another OSError is
\* raised unless the path is a directory
RECURSIVE mkdir(_, _)
mkdir(nodes, path) ==
    IF KindAt(nodes, path) = "dir" THEN [nodes |-> nodes, err |-> ""]
    ELSE IF nodes[path] = "file" THEN [nodes |-> nodes, err |-> "FileExistsError"]
    ELSE IF KindAt(nodes, Parent(path)) = "dir"
    THEN [nodes |-> [nodes EXCEPT ![path] = "dir"], err |-> ""]
    ELSE IF KindAt(nodes, Parent(path)) = "file"
    THEN [nodes |-> nodes, err |-> "NotADirectoryError"]
    ELSE LET made == mkdir(nodes, Parent(path))
         IN IF made.err # "" THEN made
            ELSE [nodes |-> [made.nodes EXCEPT ![path] = "dir"], err |-> ""]

\* mkdir without exist_ok=True
ensure_directory_NotExistOk(nodes, path) ==
    IF KindAt(nodes, path) = "dir" THEN [nodes |-> nodes, err |-> "FileExistsError"]
    ELSE mkdir(nodes, path)

\* line 102
ensure_directory(nodes, path) == mkdir(nodes, path)

\* a stage asks for its work directory; tree keeps the path asked for last,
\* how often in a row, and the tree before and after the first of these calls
EnsureDirectory(path) ==
    /\ path = tree.path => tree.calls < 2
    /\ LET r == ensure_directory(tree.nodes, path)
           again == path = tree.path
       IN tree' = [nodes |-> r.nodes, path |-> path,
                   calls |-> IF again THEN tree.calls + 1 ELSE 1,
                   err |-> r.err,
                   once |-> IF again THEN tree.once ELSE r.nodes,
                   before |-> IF again THEN tree.before ELSE tree.nodes]
    /\ UNCHANGED <<run, now, backup_previous, fsVars, pc, loc, result, pre, hist, gen>>

InitEnsure ==
    /\ now = 1
    /\ backup_previous \in BOOLEAN
    /\ cleaned = NoDir
    /\ consolidated = NoDir
    /\ archive = [t \in Timestamps |-> NoDir]
    /\ stable = NoDir
    /\ siblings = [n \in Names |-> NoDir]
    /\ pc = [p \in Procs |-> "idle"]
    /\ loc = [p \in Procs |-> LocInit]
    /\ result = [p \in Procs |-> NoResult]
    /\ pre = [p \in Procs |-> FS]
    /\ hist = HistInit
    /\ gen = 0
    /\ tree \in {[NoTree EXCEPT !.nodes = nodes, !.once = nodes, !.before = nodes]
                    : nodes \in Trees}
    /\ run = NoRun

NextEnsure == \E path \in Paths : EnsureDirectory(path)

SpecEnsure == InitEnsure /\ [][NextEnsure]_vars

-----------------------------------------------------------------------------
(* PublishingEngine.get_publication_status between successful calls *)

\* lines 410-412: the first of the listed records, if any
last_publication ==
    {IF publications = <<>> THEN None ELSE publications[1]
        : publications \in list_publications}

\* lines 415-428: the datasets directly in the stable directory that parse
current_datasets ==
    {[file |-> f.name, records |-> f.rows] : f \in {g \in DirectCsv(stable) : g.ok}}

\* the lookup of lines 410-412 missing
GetPublicationStatus_NoRecord(p) ==
    /\ pc[p] = "idle"
    /\ result[p].kind = "returned"
    /\ result' = [result EXCEPT ![p].status =
                     [taken |-> TRUE,
                      stable_directory_exists |-> stable.exists,
                      staging_ready |-> cleaned.exists,
                      last_publication |-> None,
                      current_datasets |-> current_datasets,
                      total_records |-> SumRows({g \in DirectCsv(stable) : g.ok})]]
    /\ UNCHANGED <<run, tree, now, backup_previous, fsVars, pc, loc, pre, hist, gen>>

\* lines 399-432, asked after a call has returned
GetPublicationStatus(p) ==
    /\ pc[p] = "idle"
    /\ result[p].kind = "returned"
    /\ \E last \in last_publication :
          result' = [result EXCEPT ![p].status =
                        [taken |-> TRUE,
                         stable_directory_exists |-> stable.exists,
                         staging_ready |-> cleaned.exists,
                         last_publication |-> last,
                         current_datasets |-> current_datasets,
                         total_records |-> SumRows({g \in DirectCsv(stable) : g.ok})]]
    /\ UNCHANGED <<run, tree, now, backup_previous, fsVars, pc, loc, pre, hist, gen>>

\* publish_data and rollback_publication with no filesystem failure
StepStatus(p) ==
    \/ \E force \in BOOLEAN : PublishCall(p, create_run_timestamp, force)
    \/ PublishValidate(p)
    \/ PublishCreateBackup(p)
    \/ PublishMetadata(p)
    \/ PublishPrepare(p)
    \/ PublishMetaOpen(p)
    \/ PublishMetaDump(p)
    \/ PublishCleanup(p)
    \/ \E n \in RollbackTargets : RollbackCall(p, n)
    \/ RollbackFind(p)
    \/ RollbackCreateBackup(p)
    \/ RollbackSwap(p)
    \/ RollbackReturn(p)
    \/ BackupDirectoryCheck(p)
    \/ BackupDirectoryCopy(p)
    \/ SwapCheck(p)
    \/ SwapCopy(p)
    \/ SwapRmtree(p)
    \/ SwapRename(p)
    \/ GetPublicationStatus(p)

NextStatus ==
    \/ Tick
    \/ Reconfigure
    \/ \E layout \in Layouts : StageProduce(layout)
    \/ \E p \in Procs : StepStatus(p)

SpecStatus == Init /\ [][NextStatus]_vars

-----------------------------------------------------------------------------
(* flows/main_flow.py: the survey_pipeline flow *)

MaxForms == 1

\* dict.get(key, default)
dict_get(d, key, default) == IF key \in DOMAIN d THEN d[key] ELSE default

\* an exception leaves the flow (lines 328-330)
FlowRaises == [run EXCEPT !.pos = "done", !.outcome = "raised"]

\* lines 288-289, setup_pipeline: the run is stamped and the work directories,
\* staging/cleaned among them, are made if missing
FlowSetup ==
    /\ run.mode = "none"
    /\ Idle
    /\ run' = [NoRun EXCEPT !.mode = "flow", !.pos = "ingest",
                            !.run_timestamp = create_run_timestamp]
    /\ cleaned' = IF cleaned.exists THEN cleaned ELSE EmptyDir
    /\ UNCHANGED <<tree, now, backup_previous, consolidated, archive, stable, siblings,
                   pc, loc, result, pre, hist, gen>>

\* line 295, ingest_data: raises when ODK Central cannot be reached, else
\* returns the count of downloaded forms
FlowIngest(connected, total_downloaded) ==
    /\ run.mode = "flow"
    /\ run.pos = "ingest"
    /\ run' = IF ~connected THEN FlowRaises
              ELSE [run EXCEPT !.pos = "validate",
                               !.ingestion_results =
                                   [total_downloaded |-> total_downloaded,
                                    status |-> "completed"]]
    /\ UNCHANGED <<tree, now, backup_previous, fsVars, pc, loc, result, pre, hist, gen>>

\* line 299, validate_data: raises on critical failures when
\* validation.fail_fast_on_critical is set, else returns the results
FlowValidate(critical_failures, fail_fast) ==
    /\ run.mode = "flow"
    /\ run.pos = "validate"
    /\ run' = IF fail_fast /\ critical_failures > 0 THEN FlowRaises
              ELSE [run EXCEPT !.pos = "clean",
                               !.validation_results =
                                   [critical_failures |-> critical_failures]]
    /\ UNCHANGED <<tree, now, backup_previous, fsVars, pc, loc, result, pre, hist, gen>>

\* line 303, clean_data: the placeholder results of lines 173-180
FlowClean ==
    /\ run.mode = "flow"
    /\ run.pos = "clean"
    /\ run' = [run EXCEPT !.pos = "publish",
                          !.cleaning_results =
                              [status |-> "placeholder", cleaned_datasets |-> 0,
                               transformations_applied |-> 0, records_cleaned |-> 0]]
    /\ UNCHANGED <<tree, now, backup_previous, fsVars, pc, loc, result, pre, hist, gen>>

\* line 307, the publish_data task up to its call of the engine: without a true
\* 'success' in the cleaning results it returns at lines 204-210, else it calls
\* engine.publish_data(run_timestamp, force=False) at line 213
FlowPublish ==
    /\ run.mode = "flow"
    /\ run.pos = "publish"
    /\ \A p \in Procs : pc[p] = "idle" /\ result[p].kind = "none"
    /\ IF ~dict_get(run.cleaning_results, "success", FALSE)
       THEN /\ run' = [run EXCEPT !.pos = "compile",
                                  !.publishing_results =
                                      [success |-> FALSE,
                                       error |-> "Cleaning step failed, cannot publish",
                                       run_timestamp |-> run.run_timestamp]]
            /\ UNCHANGED <<tree, now, backup_previous, fsVars, pc, loc, result, pre,
                           hist, gen>>
       ELSE \E p \in Procs : PublishCall(p, run.run_timestamp, FALSE)

\* lines 310-326: the results are compiled and the notification is sent
FlowCompile ==
    /\ run.mode = "flow"
    /\ run.pos = "compile"
    /\ run' = [run EXCEPT !.pos = "done", !.outcome = "returned",
                          !.status = "completed"]
    /\ UNCHANGED <<tree, now, backup_previous, fsVars, pc, loc, result, pre, hist, gen>>

NextFlow ==
    \/ Tick
    \/ \E layout \in Layouts : StageProduce(layout)
    \/ FlowSetup
    \/ \E connected \in BOOLEAN, total_downloaded \in 0..MaxForms :
          FlowIngest(connected, total_downloaded)
    \/ \E critical_failures \in 0..MaxForms, fail_fast \in BOOLEAN :
          FlowValidate(critical_failures, fail_fast)
    \/ FlowClean
    \/ FlowPublish
    \/ FlowCompile

SpecFlow == Init /\ [][NextFlow]_vars

-----------------------------------------------------------------------------
(* cli.py: run-pipeline, its commands executed one after the other *)

\* how a command invoked with ctx.invoke ends: it returns, an Exception leaves
\* it, or its sys.exit(1) leaves it as SystemExit
Outcomes == {"returns", "raises", "exits"}

\* lines 567-584 and 453-454: the steps are chosen and the results start empty
RunPipeline(skip_validation, skip_cleaning, force) ==
    /\ run.mode = "none"
    /\ Idle
    /\ run' = [NoRun EXCEPT !.mode = "cli", !.pos = "ingest", !.force = force,
                            !.steps = {"ingest", "publish"}
                                \cup (IF skip_validation THEN {} ELSE {"validate"})
                                \cup (IF skip_cleaning THEN {} ELSE {"clean"})]
    /\ UNCHANGED <<tree, now, backup_previous, fsVars, pc, loc, result, pre, hist, gen>>

\* the conditions of lines 460, 477, 494 and 511
StepRuns(step) ==
    /\ step \in run.steps
    /\ CASE step = "ingest" -> TRUE
         [] step = "validate" -> run.overall_success
         [] OTHER -> run.overall_success \/ run.force

NextPos(step) ==
    CASE step = "ingest" -> "validate"
      [] step = "validate" -> "clean"
      [] step = "clean" -> "publish"
      [] OTHER -> "summary"

\* the try of a step: 'success' when the command returns; 'failed' when an
\* Exception leaves it, and then a ClickException unless forced (the publish
\* step raises none); SystemExit is no Exception and leaves the pipeline
StepEnds(step, outcome) ==
    IF ~StepRuns(step) THEN [run EXCEPT !.pos = NextPos(step)]
    ELSE CASE outcome = "returns" ->
                [run EXCEPT !.results[step] = "success", !.pos = NextPos(step)]
           [] outcome = "raises" ->
                IF step # "publish" /\ ~run.force
                THEN [run EXCEPT !.results[step] = "failed",
                                 !.overall_success = FALSE,
                                 !.pos = "done", !.outcome = "ClickException"]
                ELSE [run EXCEPT !.results[step] = "failed",
                                 !.overall_success = FALSE,
                                 !.pos = NextPos(step)]
           [] OTHER -> [run EXCEPT !.pos = "done", !.outcome = "SystemExit"]

\* lines 460-474
CliIngest(outcome) ==
    /\ run.mode = "cli"
    /\ run.pos = "ingest"
    /\ run' = StepEnds("ingest", outcome)
    /\ UNCHANGED <<tree, now, backup_previous, fsVars, pc, loc, result, pre, hist, gen>>

\* lines 477-491
CliValidate(outcome) ==
    /\ run.mode = "cli"
    /\ run.pos = "validate"
    /\ run' = StepEnds("validate", outcome)
    /\ UNCHANGED <<tree, now, backup_previous, fsVars, pc, loc, result, pre, hist, gen>>

\* line 500: the clean command writes its datasets under staging/cleaned
CliCleanWrites(layout) ==
    /\ run.mode = "cli"
    /\ run.pos = "clean"
    /\ StepRuns("clean")
    /\ StageProduce(layout)

\* lines 494-508
CliClean(outcome) ==
    /\ run.mode = "cli"
    /\ run.pos = "clean"
    /\ run' = StepEnds("clean", outcome)
    /\ UNCHANGED <<tree, now, backup_previous, fsVars, pc, loc, result, pre, hist, gen>>

\* lines 511-517 and the publish command up to line 429: it stamps its own run
\* and calls engine.publish_data(run_timestamp, force=force)
CliPublishCall ==
    /\ run.mode = "cli"
    /\ run.pos = "publish"
    /\ \A p \in Procs : pc[p] = "idle" /\ result[p].kind = "none"
    /\ IF StepRuns("publish")
       THEN \E p \in Procs : PublishCall(p, create_run_timestamp, run.force)
       ELSE /\ run' = StepEnds("publish", "returns")
            /\ UNCHANGED <<tree, now, backup_previous, fsVars, pc, loc, result, pre,
                           hist, gen>>

\* the publish command after its call of the engine (lines 431-447): an unsuccessful
\* result ends in sys.exit(1); an exception is reported by the handler of
\* lines 446-447 and the command returns
publish(r) ==
    IF r.kind = "raised" THEN "returns"
    ELSE IF r.success THEN "returns"
    ELSE "exits"

\* lines 518-523: the publish step is recorded
CliPublish ==
    /\ run.mode = "cli"
    /\ run.pos = "publish"
    /\ \E p \in Procs :
          /\ pc[p] = "idle"
          /\ result[p].kind # "none"
          /\ run' = StepEnds("publish", publish(result[p]))
    /\ UNCHANGED <<tree, now, backup_previous, fsVars, pc, loc, result, pre, hist, gen>>

\* lines 526-552: the summary is printed and the results are returned
CliSummary ==
    /\ run.mode = "cli"
    /\ run.pos = "summary"
    /\ run' = [run EXCEPT !.pos = "done", !.outcome = "returned",
                          !.report = IF run.overall_success
                                     THEN "Pipeline completed successfully"
                                     ELSE "Pipeline completed with errors"]
    /\ UNCHANGED <<tree, now, backup_previous, fsVars, pc, loc, result, pre, hist, gen>>

\* publish_data once called, with the filesystem failures it can meet
StepCli(p) ==
    \/ PublishValidate(p)
    \/ PublishCreateBackup(p)
    \/ PublishMetadata(p)
    \/ PublishPrepare(p)
    \/ PublishPrepareFault(p)
    \/ PublishMetaOpen(p)
    \/ PublishMetaDump(p)
    \/ PublishMetaFault(p)
    \/ PublishCleanup(p)
    \/ PublishCleanupFault(p)
    \/ BackupDirectoryCheck(p)
    \/ BackupDirectoryCopy(p)
    \/ BackupDirectoryFault(p)
    \/ SwapCheck(p)
    \/ SwapCopy(p)
    \/ SwapRmtree(p)
    \/ SwapRename(p)
    \/ SwapFault(p)

NextCli ==
    \/ Tick
    \/ \E skip_validation, skip_cleaning, force \in BOOLEAN :
          RunPipeline(skip_validation, skip_cleaning, force)
    \/ \E outcome \in Outcomes : CliIngest(outcome)
    \/ \E outcome \in Outcomes : CliValidate(outcome)
    \/ \E layout \in Layouts : CliCleanWrites(layout)
    \/ \E outcome \in Outcomes : CliClean(outcome)
    \/ CliPublishCall
    \/ \E p \in Procs : StepCli(p)
    \/ CliPublish
    \/ CliSummary

SpecCli == Init /\ [][NextCli]_vars

-----------------------------------------------------------------------------
(* Properties *)

Returned(p, op) == pc[p] = "idle" /\ result[p].kind = "returned" /\ result[p].op = op

\* the call of p ended on an injected filesystem failure
FaultFailure(p) == result[p].error = "OSError"

NonEmpty(d) == d.exists /\ ~IsEmpty(d)

\* C1: while publish_data runs, the stable directory holds the complete
\* pre-publish file set or the complete post-publish file set (the swapped-in
\* source), never less and never nothing.
C1_StableOldOrNew ==
    \A p \in Procs :
        (pc[p] # "idle" /\ loc[p].op = "publish") =>
            \/ stable = pre[p].stable
            \/ /\ pc[p] \in {"pub_meta_open", "pub_meta_dump", "pub_cleanup"}
               /\ stable.exists
               /\ stable.files = DirAt(loc[p].source).files

\* C2: a successful rollback_publication(T) after a successful publish_data(T)
\* that ran with backup_previous over a non-empty stable directory, with no
\* other publish_data(T) in between, leaves the stable directory exactly as
\* it was just before that publish_data(T) started.
C2_RollbackRestoresPrePublish ==
    \A p \in Procs :
        (/\ Returned(p, "rollback")
         /\ result[p].success
         /\ result[p].restored_from.kind = "stable_backup"
         /\ hist.snap[result[p].restored_from.ts].valid)
        => stable = hist.snap[result[p].restored_from.ts].dir

C2_Witness ==
    /\ Returned(1, "rollback")
    /\ result[1].success
    /\ result[1].restored_from = [kind |-> "stable_backup", ts |-> 1]
    /\ hist.snap[1].valid
    /\ hist.pubs = {1, 2}
    /\ stable = PriorStable

\* C3: with distinct run timestamps, no rollback and no failure, every
\* successful publish so far has its record file in the stable directory.
C3_RecordsAppendOnly ==
    (Idle /\ hist.rollbacks = 0 /\ hist.faults = 0
          /\ Cardinality(hist.pubs) = hist.npubs)
    => /\ \A t \in hist.pubs : RecordOf(stable, t) # {}
       /\ Cardinality({r \in stable.recs : r.ts \in hist.pubs}) = hist.npubs

\* C4: after a successful publish_data(T) the record file of T is in the
\* stable directory and parses back to the metadata returned to the caller.
C4_RecordRoundTrips ==
    \A p \in Procs :
        (Returned(p, "publish") /\ result[p].success) =>
            \E r \in RecordOf(stable, result[p].run_timestamp) :
                r.complete /\ json_load(r.json) = result[p].metadata

\* C5: publish_data with force=false on staging the validator rejects returns
\* success=false with the validator's issues from its validation step, and
\* nothing in the directory tree has changed since the call started.
C5_InvalidStagingMutatesNothing ==
    [][\A p \in Procs :
        (pc[p] = "pub_validate" /\ ~loc[p].force
            /\ ~validate_staging_data(cleaned).valid)
        => /\ pc'[p] = "idle"
           /\ result'[p].kind = "returned"
           /\ ~result'[p].success
           /\ result'[p].error = "Staging data validation failed"
           /\ result'[p].issues = validate_staging_data(cleaned).issues
           /\ result'[p].issues # {}
           /\ FS = pre[p]
           /\ UNCHANGED fsVars]_vars

C5_Witness ==
    /\ Returned(1, "publish")
    /\ result[1].error = "Staging data validation failed"
    /\ NonEmpty(pre[1].stable)
    /\ pre[1].cleaned.exists
    /\ \E n \in Names : siblings[n].exists
    /\ FS = pre[1]

\* C6: publish_data with force=true when staging/cleaned does not exist fails
\* and has created, changed or removed no directory.
C6_MissingSourceMutatesNothing ==
    \A p \in Procs :
        (Returned(p, "publish") /\ result[p].force /\ ~pre[p].cleaned.exists)
        => /\ ~result[p].success
           /\ stable = pre[p].stable
           /\ siblings = pre[p].siblings
           /\ archive = pre[p].archive
           /\ consolidated = pre[p].consolidated

\* C7: no exception leaves publish_data or rollback_publication: every
\* failure is a returned result with success=false and an error.
C7_NoExceptionPropagates ==
    \A p \in Procs :
        /\ result[p].kind # "raised"
        /\ (result[p].kind = "returned" /\ ~result[p].success) => result[p].error # ""

\* C8: a first publish_data(T) (no stable directory, force=false) over valid
\* staging of k files directly under staging/cleaned with r rows in all, no
\* filesystem operation failing, returns success=true, backup_path=None,
\* datasets_published=k, total_records=r, and the stable directory then holds
\* exactly those k files and one record file, that of T.
C8_FirstPublish ==
    \A p \in Procs :
        (/\ pc[p] = "idle" /\ result[p].op = "publish" /\ ~result[p].force
         /\ ~FaultFailure(p)
         /\ ~pre[p].stable.exists
         /\ pre[p].cleaned.files # {}
         /\ \A f \in pre[p].cleaned.files : f.sub = <<>> /\ f.ok
         /\ SumRows(pre[p].cleaned.files) > 0)
        => /\ result[p].kind = "returned"
           /\ result[p].success
           /\ result[p].backup_path = None
           /\ result[p].datasets_published = Cardinality(pre[p].cleaned.files)
           /\ result[p].total_records = SumRows(pre[p].cleaned.files)
           /\ stable.exists
           /\ stable.files = pre[p].cleaned.files
           /\ {r.ts : r \in stable.recs} = {result[p].run_timestamp}
           /\ Cardinality(stable.recs) = 1

C8_Witness ==
    /\ Returned(1, "publish")
    /\ result[1].success /\ ~result[1].force
    /\ ~pre[1].stable.exists
    /\ result[1].datasets_published = 2
    /\ result[1].total_records = 3
    /\ Cardinality(stable.files) = 2

\* C9 as stated: after publish_data(T, force=true) over a prior generation
\* with an empty staging area the stable directory is empty.
C9_StableEmptyAfterForcedEmpty ==
    \A p \in Procs :
        (/\ Returned(p, "publish") /\ result[p].force /\ result[p].success
         /\ pre[p].cleaned = EmptyDir
         /\ NonEmpty(pre[p].stable))
        => stable.exists /\ IsEmpty(stable)

\* C9 amended: with a prior generation in the stable directory and an empty
\* staging area, publish_data(T, force=true), no filesystem operation
\* failing, is not stopped by validation and succeeds; afterwards the stable
\* directory holds no dataset file and exactly one entry, the record of T.
C9_ForcedEmptyLeavesOnlyRecord ==
    \A p \in Procs :
        (/\ pc[p] = "idle" /\ result[p].op = "publish" /\ result[p].force
         /\ ~FaultFailure(p)
         /\ pre[p].cleaned = EmptyDir
         /\ NonEmpty(pre[p].stable))
        => /\ result[p].kind = "returned"
           /\ result[p].success
           /\ result[p].datasets_published = 0
           /\ stable.exists
           /\ stable.files = {}
           /\ Cardinality(stable.recs) = 1
           /\ \A r \in stable.recs : r.ts = result[p].run_timestamp /\ r.complete

C9_Witness ==
    /\ Returned(1, "publish")
    /\ result[1].force /\ result[1].success
    /\ pre[1].cleaned = EmptyDir
    /\ pre[1].stable.files # {}
    /\ stable.files = {}
    /\ stable.recs # {}

\* C10: validate_staging_data gives valid=false exactly when no tabular file
\* is found, or the parsed files hold no record in all, or a file fails to
\* parse; an invalid result has an issue; a zero-row file adds an issue and
\* leaves the result valid when the other files parse and hold records.
C10_ValidIffCriteria ==
    LET v == validate_staging_data(cleaned)
        direct == {f \in cleaned.files : Len(f.sub) = 0}
        nested == {f \in cleaned.files : Len(f.sub) = 1}
        found == IF direct # {} THEN direct ELSE nested
        parsed == {f \in found : f.ok}
        zero == {f \in parsed : f.rows = 0}
    IN /\ v.valid <=> (cleaned.exists /\ found # {} /\ parsed = found
                       /\ SumRows(parsed) # 0)
       /\ ~v.valid => v.issues # {}
       /\ cleaned.exists => \A f \in zero : \E i \in v.issues : i.file = f.name
       /\ \A p \in Procs :
            /\ (pc[p] = "pub_backup" /\ ~loc[p].force) => v.valid
            /\ (Returned(p, "publish") /\ ~result[p].success)
                   => ~v.valid /\ result[p].issues = v.issues

C10_Witness ==
    /\ pc[1] = "pub_backup"
    /\ validate_staging_data(cleaned).valid
    /\ \E f \in csv_files(cleaned) : f.ok /\ f.rows = 0

\* C11: rollback_publication(ts) with no directory stable_backup_<ts> returns
\* a failure saying no backup was found, from its first step, and no
\* directory has been created, changed or removed since the call started.
C11_RollbackNotFoundMutatesNothing ==
    [][\A p \in Procs :
        (pc[p] = "rb_find" /\ ~siblings[loc[p].tag].exists)
        => /\ pc'[p] = "idle"
           /\ result'[p].kind = "returned"
           /\ result'[p].op = "rollback"
           /\ ~result'[p].success
           /\ result'[p].error = "No backup found"
           /\ FS = pre[p]
           /\ UNCHANGED fsVars]_vars

C11_Witness ==
    /\ Returned(1, "rollback")
    /\ result[1].error = "No backup found"
    /\ NonEmpty(stable)
    /\ \E n \in RollbackTargets : siblings[n].exists
    /\ FS = pre[1]

\* C12: a successful rollback_publication over an existing stable directory
\* returns as current_backup the path of a snapshot that holds the stable
\* content of before the rollback, whatever backup_previous is.
C12_RollbackSnapshotsCurrent ==
    \A p \in Procs :
        (Returned(p, "rollback") /\ result[p].success /\ pre[p].stable.exists)
        => /\ result[p].current_backup \in Names
           /\ siblings[result[p].current_backup] = pre[p].stable

\* C13: no step deletes or changes a snapshot stable_backup_<T> once a
\* publish_data(T) has created it.
C13_SnapshotsRetained ==
    [][\A n \in Names :
        (n.kind = "stable_backup" /\ NonEmpty(siblings[n]))
        => siblings'[n] = siblings[n]]_vars

\* the path s ends with the path t
IsSuffix(t, s) == Len(t) <= Len(s) /\ SubSeq(s, Len(s) - Len(t) + 1, Len(s)) = t

C15_ArchiveFailureNotFatal ==
    [][\A p \in Procs :
        pc[p] = "pub_cleanup"
        => /\ pc'[p] = "idle"
           /\ result'[p].kind = "returned"
           /\ result'[p].success
           /\ stable' = stable
           /\ stable.exists
           /\ stable.files = DirAt(loc[p].source).files
           /\ \E r \in RecordOf(stable, loc[p].ts) : r.complete]_vars

C15_Witness ==
    /\ Returned(1, "publish") /\ result[1].success
    /\ ~hist.archived
    /\ cleaned.files # {}
    /\ stable.files = cleaned.files
    /\ \E r \in RecordOf(stable, result[1].run_timestamp) : r.complete


\* C16: list_publications returns the parsed content of exactly the record
\* files of the stable directory that parse, each once, in an order of
\* non-increasing file modification time; a file that does not parse is left
\* out and the others stay; without a stable directory the list is empty.
C16_ListsParseableRecordsNewestFirst ==
    \A p \in Procs :
        (Returned(p, "list"))
        => LET L == result[p].publications
               good == {r \in stable.recs : r.complete}
           IN /\ ~stable.exists => L = <<>>
              /\ Len(L) = Cardinality(good)
              /\ \E q \in [1..Len(L) -> good] :
                    /\ \A r \in good : \E i \in 1..Len(L) : q[i] = r
                    /\ \A i \in 1..Len(L) : L[i] = json_load(q[i].json)
                    /\ \A i, j \in 1..Len(L) : i < j => q[i].mt >= q[j].mt

C16_Witness ==
    /\ Returned(1, "list")
    /\ Len(result[1].publications) = 2
    /\ Cardinality(stable.recs) = 3
    /\ \E r \in stable.recs :
          /\ ~r.complete
          /\ \E a, b \in stable.recs : a.complete /\ b.complete /\ a.mt < r.mt /\ r.mt < b.mt


\* the directories beside the stable directory that the last call of p created
Created(p) == {n \in Names : siblings[n].exists /\ ~pre[p].siblings[n].exists}

Ended(p) == pc[p] = "idle" /\ result[p].op \in {"publish", "rollback"}

C18_PublishNotSerialised ==
    \A p, q \in Publishers :
        (p # q /\ pc[p] # "idle")
        => /\ (pc[q] = "idle" /\ hist.ops < MaxOps)
                => ENABLED PublishCall(q, create_run_timestamp, FALSE)
           /\ pc[q] = "pub_validate" => ENABLED PublishValidate(q)

\* both invocations passed validation and returned success=true with the same
\* run timestamp; the stable directory holds one generation with one record,
\* and stable_backup_<T> is no longer the copy of the pre-publish generation
C18_Witness ==
    /\ \A p \in Publishers : Returned(p, "publish") /\ result[p].success
    /\ result[1].run_timestamp = result[2].run_timestamp
    /\ pre[1].stable = PriorStable /\ pre[2].stable = PriorStable
    /\ stable.exists /\ Cardinality(stable.recs) = 1
    /\ result[1].backup_path = [kind |-> "stable_backup", ts |-> result[1].run_timestamp]
    /\ result[2].backup_path = result[1].backup_path
    /\ siblings[result[1].backup_path].exists
    /\ siblings[result[1].backup_path] # PriorStable


\* C19: when neither the path nor an ancestor is a regular file,
\* ensure_directory raises nothing, the path and its ancestors are
\* directories afterwards and nothing else has changed; a second call on the
\* same path raises nothing either and leaves the tree as the first left it.
C19_EnsureDirectoryIdempotent ==
    /\ \A path \in Paths :
          LET first == ensure_directory(tree.nodes, path)
              second == ensure_directory(first.nodes, path)
              clear == \A q \in Prefixes(path) : tree.nodes[q] # "file"
          IN /\ clear <=> first.err = ""
             /\ clear => /\ second = first
                         /\ \A q \in Prefixes(path) : first.nodes[q] = "dir"
                         /\ \A q \in Paths \ Prefixes(path) :
                               first.nodes[q] = tree.nodes[q]
             /\ ~clear => first.nodes = tree.nodes
    /\ (tree.calls = 2 /\ \A q \in Prefixes(tree.path) : tree.before[q] # "file")
          => tree.err = "" /\ tree.nodes = tree.once

C19_Witness ==
    /\ tree.calls = 2
    /\ tree.err = ""
    /\ Len(tree.path) = MaxDepth
    /\ \A q \in Prefixes(tree.path) : tree.before[q] = "absent"
    /\ \A q \in Prefixes(tree.path) : tree.nodes[q] = "dir"
    /\ tree.nodes = tree.once
    /\ \E q \in Paths : tree.nodes[q] = "file"


\* a copy <target name>_backup_<now> of the target as the call of p found it
SwapBackupHolds(p) ==
    \E n \in Names : n.kind = "cleaned_stable_backup" /\ siblings[n] = pre[p].stable

\* C20: in atomic_directory_swap with backup=true on an existing target, from
\* the first removal of anything in the target on, while the swap runs and
\* once the rollback that called it has ended, a backup directory holding
\* the target as it was before the call exists.
C20_BackupBeforeDestruction ==
    \A p \in Procs :
        /\ (/\ pc[p] \in {"swap_rmtree", "swap_rename"}
            /\ loc[p].backup
            /\ pre[p].stable.exists
            /\ stable # pre[p].stable)
           => SwapBackupHolds(p)
        /\ (/\ pc[p] = "idle" /\ result[p].op = "rollback"
            /\ pre[p].stable.exists
            /\ stable # pre[p].stable)
           => SwapBackupHolds(p)

C20_Witness ==
    /\ pc[1] = "swap_rmtree"
    /\ loc[1].backup
    /\ loc[1].op = "publish"
    /\ stable.exists /\ stable # pre[1].stable
    /\ stable.files = {} /\ stable.recs # {}
    /\ SwapBackupHolds(1)


\* C21: when copytree, rmtree or rename raises inside atomic_directory_swap,
\* the call's temporary directory is gone when it exits, the exception reaches
\* the caller, and the target is as it was before the call unless the removal
\* had completed and the rename failed.
C21_SwapFailureLeavesTarget ==
    [][\A p \in Procs :
        (pc[p] \in {"swap_copy", "swap_rmtree", "swap_rename"} /\ pc'[p] = "idle")
        => /\ ~siblings'[IF pc[p] = "swap_copy" THEN TempName ELSE loc[p].temp].exists
           /\ result'[p].kind \in {"returned", "raised"}
           /\ ~result'[p].success
           /\ result'[p].error \in {"OSError", "FileNotFoundError", "FileExistsError"}
           /\ \/ stable' = pre[p].stable
              \/ pc[p] = "swap_rename" /\ ~stable'.exists]_vars

\* C22: the source publish_data hands to atomic_directory_swap holds dataset
\* files only, none of them in a sub-directory.
C22_SwapSourceIsFlat ==
    \A p \in Procs :
        (pc[p] = "swap_check" /\ loc[p].op = "publish")
        => /\ DirAt(loc[p].source).recs = {}
           /\ \A f \in DirAt(loc[p].source).files : f.sub = <<>>

\* C23: when publish_data(T) returns success=false and the stable directory
\* held no record of T when the call started, it holds none afterwards,
\* complete or partial.
C23_NoRecordAfterFailure ==
    \A p \in Procs :
        (/\ Returned(p, "publish") /\ ~result[p].success
         /\ RecordOf(pre[p].stable, result[p].run_timestamp) = {})
        => RecordOf(stable, result[p].run_timestamp) = {}


\* C25: after a successful publish_data the dataset files of the stable
\* directory are the files the record lists in datasets_published, the
\* returned datasets_published is their number and total_records the sum of
\* their rows.
C25_RecordMatchesStable ==
    [][\A p \in Procs :
        (pc[p] = "pub_cleanup" /\ pc'[p] = "idle" /\ result'[p].success)
        => /\ {[file |-> f.name, path |-> f.sub] : f \in stable'.files}
                = {[file |-> d.file, path |-> <<>>]
                      : d \in result'[p].metadata.datasets_published}
           /\ result'[p].datasets_published = Cardinality(stable'.files)
           /\ result'[p].total_records = SumRows(stable'.files)]_vars

\* C26: the record of a successful publish_data says backup_created exactly
\* when the call returned a backup_path.
C26_BackupCreatedMeansBackup ==
    \A p \in Procs :
        (Returned(p, "publish") /\ result[p].success)
        => /\ result[p].metadata.backup_created <=> result[p].backup_path # None
           /\ \A r \in RecordOf(stable, result[p].run_timestamp) :
                r.complete => (r.json.backup_created <=> result[p].backup_path # None)


\* C28: with two atomic_directory_swap invocations running against the same
\* target, the step in which one of them fails and cleans up leaves the
\* temporary directory of the other in place.
C28_CleanupRemovesOwnTempOnly ==
    [][\A p, q \in Publishers :
        (/\ p # q
         /\ pc[q] \in {"swap_rmtree", "swap_rename"}
         /\ siblings[loc[q].temp].exists
         /\ pc[p] \in {"swap_copy", "swap_rmtree", "swap_rename"}
         /\ pc'[p] = "idle")
        => siblings'[loc[q].temp].exists]_vars


\* C24: with successful calls only, the last_publication that
\* get_publication_status reports after a publish_data(T) is the record of T;
\* after a rollback it is the record stored with the restored generation,
\* whose files and records the stable directory now holds; it is None only
\* when the stable directory holds no record.
C24_LastPublicationIsCurrent ==
    \A p \in Procs :
        (pc[p] = "idle" /\ result[p].status.taken /\ result[p].success)
        => LET last == result[p].status.last_publication IN
           /\ result[p].op = "publish"
                => last = json_load(json_dump(result[p].metadata))
           /\ result[p].op = "rollback"
                => /\ stable = siblings[result[p].restored_from]
                   /\ last = None => stable.recs = {}
                   /\ last # None =>
                        /\ \E r \in siblings[result[p].restored_from].recs :
                              last = json_load(r.json)
                        /\ Cardinality(stable.recs) = 1

C24_Witness ==
    /\ pc[1] = "idle" /\ result[1].status.taken
    /\ result[1].op = "rollback" /\ result[1].success
    /\ result[1].status.last_publication # None
    /\ result[1].status.last_publication.publication_timestamp = 1
    /\ result[1].restored_from = [kind |-> "stable_backup", ts |-> 2]
    /\ \E f \in stable.files : f.gen = 1


\* C27: when the last successful publish_data archived its staging and no
\* staging content has been produced since, a publish_data(T2, force=false)
\* returns success=false from its validation step and no directory has
\* changed since that call started.
C27_PublishConsumesStaging ==
    [][\A p \in Procs :
        (pc[p] = "pub_validate" /\ ~loc[p].force /\ hist.archived)
        => /\ pc'[p] = "idle"
           /\ result'[p].kind = "returned"
           /\ ~result'[p].success
           /\ result'[p].error = "Staging data validation failed"
           /\ FS = pre[p]
           /\ UNCHANGED fsVars]_vars

C27_Witness ==
    /\ Returned(1, "publish") /\ ~result[1].force
    /\ result[1].error = "Staging data validation failed"
    /\ hist.archived
    /\ hist.npubs = 1 /\ hist.rollbacks = 0
    /\ cleaned.exists
    /\ \E t \in Timestamps : t # result[1].run_timestamp /\ RecordOf(stable, t) # {}
    /\ FS = pre[1]


\* C29: when the survey_pipeline flow has returned, its setup, ingest, validate
\* and clean tasks having returned without raising, PublishingEngine.publish_data
\* has been called for the run timestamp: the publish was attempted, not skipped.
C29_FlowAttemptsPublish ==
    (run.mode = "flow" /\ run.pos = "done" /\ run.outcome = "returned")
    => \E p \in Procs :
          /\ result[p].kind # "none"
          /\ result[p].op = "publish"
          /\ result[p].run_timestamp = run.run_timestamp


\* C30: in the sequential CLI pipeline the publish step is recorded 'success',
\* and the pipeline is reported as completed successfully, only if
\* PublishingEngine.publish_data was called and returned success=true; an
\* exception raised while publishing never yields 'success'.
C30_SuccessOnlyIfPublished ==
    (/\ run.mode = "cli"
     /\ \/ run.results["publish"] = "success"
        \/ run.report = "Pipeline completed successfully")
    => \E p \in Procs :
          /\ result[p].kind = "returned"
          /\ result[p].op = "publish"
          /\ result[p].success

====
